---- MODULE Spec2Model ----
(***************************************************************************)
(* Shape-and-state model of models/RawNet2Spoof.py: the SincConv           *)
(* front-end, the 1-D Residual_block, the 2-D BasicBlock, the 2-D backbone *)
(* Model and the attention-gated Model2.                                   *)
(*                                                                         *)
(* A tensor is modelled by its shape (a sequence of dimension sizes); a    *)
(* module object by a record of the attributes its constructor assigns.    *)
(* Every library call is modelled by its shape rule and by the error it    *)
(* raises when the rule is not met.  Floating-point contents are symbolic. *)
(***************************************************************************)
EXTENDS Integers, Sequences, FiniteSets, TLC

VARIABLES
    sinc,       \* the SincConv object bound by the latest SincConv(...) expression, or None
    sincArgs,   \* the constructor arguments of that object
    rb,         \* the Residual_block object under test, or None
    d_args,     \* the configuration object (a dict the caller owns; Model2.__init__ mutates it)
    d_args0,    \* the configuration as the caller first supplied it
    models,     \* the Model2 objects built so far from d_args, in construction order
    model,      \* the 2-D backbone Model object built from d_args, or None
    ret         \* the latest call: which operation, its inputs, what it returned or raised

vars == <<sinc, sincArgs, rb, d_args, d_args0, models, model, ret>>

----------------------------------------------------------------------------
(* Bounds of the model.                                                    *)

MaxChan    == 2     \* channel counts range over 1..MaxChan
MaxKernel  == 4     \* kernel_size / first_conv range over 1..MaxKernel
MaxLen     == 7     \* short input lengths range up to MaxLen
MaxModels  == 2     \* Model2 objects built from one configuration object
MaxForward == 1     \* caps num_batches_tracked, the count of forward calls a batch norm has seen

(* Program constants.                                                      *)

DefaultSampleRate == 16000
NFFT              == 512
PoolSize          == 3
StemWidth         == 64

----------------------------------------------------------------------------
(* Python values.                                                          *)

None == [cls |-> "None"]

PyInt(n)   == [ty |-> "int", v |-> n]      \* the integer n
PyList1(n) == [ty |-> "list", v |-> n]     \* the one-element list [n]

Ok(v)    == [ok |-> TRUE, err |-> "none", val |-> v]
Raise(e) == [ok |-> FALSE, err |-> e, val |-> <<>>]

----------------------------------------------------------------------------
(* Library layers: construction records and shape rules.                   *)

\* nn.BatchNorm1d / nn.BatchNorm2d after construction (training mode).
BatchNorm(n) == [cls |-> "BatchNorm", num_features |-> n, num_batches_tracked |-> 0]

\* Product of the dimensions of a shape other than the channel dimension.
RECURSIVE SizeProd(_, _)
SizeProd(xs, i) ==
    IF i > Len(xs) THEN 1
    ELSE (IF i = 2 THEN 1 ELSE xs[i]) * SizeProd(xs, i + 1)

\* One training-mode call of a batch norm on input of shape xs.  The rank check
\* comes first (ValueError); then num_batches_tracked is incremented; then the
\* batch-size check (ValueError) and the channel check (RuntimeError).
BatchNormCall(bn, xs, ranks) ==
    IF Len(xs) \notin ranks THEN [bn |-> bn, err |-> "ValueError"]
    ELSE [bn  |-> [bn EXCEPT !.num_batches_tracked = @ + 1],
          err |-> IF SizeProd(xs, 1) <= 1 THEN "ValueError"
                  ELSE IF xs[2] # bn.num_features THEN "RuntimeError"
                  ELSE "none"]

\* out += identity: identity must broadcast to the shape of out.
AddInPlaceOk(out, identity) ==
    /\ Len(out) = Len(identity)
    /\ \A i \in 1..Len(out) : identity[i] = out[i] \/ identity[i] = 1

\* Output length of a convolution / pooling window along one axis.
WindowLen(L, k, s, p, d) == (L + 2 * p - d * (k - 1) - 1) \div s + 1

\* F.conv1d / nn.Conv1d on a 3-D input: weight shape <<out, in/groups, k>>.
conv1d(xs, w, stride, padding, dilation, groups) ==
    IF Len(xs) # 3 THEN Raise("RuntimeError")
    ELSE IF xs[2] # w[2] * groups THEN Raise("RuntimeError")
    ELSE IF xs[3] + 2 * padding < dilation * (w[3] - 1) + 1 THEN Raise("RuntimeError")
    ELSE Ok(<<xs[1], w[1], WindowLen(xs[3], w[3], stride, padding, dilation)>>)

\* F.max_pool1d / nn.MaxPool1d(k): stride defaults to the window size.
max_pool1d(xs, k) ==
    IF Len(xs) # 3 THEN Raise("RuntimeError")
    ELSE IF WindowLen(xs[3], k, k, 0, 1) < 1 THEN Raise("RuntimeError")
    ELSE Ok(<<xs[1], xs[2], WindowLen(xs[3], k, k, 0, 1)>>)

Conv1d(cin, cout, k, p, s) ==
    [cls |-> "Conv1d", in_channels |-> cin, out_channels |-> cout,
     kernel_size |-> k, padding |-> p, stride |-> s]

Conv1dForward(c, xs) ==
    conv1d(xs, <<c.out_channels, c.in_channels, c.kernel_size>>, c.stride, c.padding, 1, 1)

Linear(fin, fout) == [cls |-> "Linear", in_features |-> fin, out_features |-> fout]

LinearForward(l, xs) ==
    IF Len(xs) = 0 \/ xs[Len(xs)] # l.in_features THEN Raise("RuntimeError")
    ELSE Ok([xs EXCEPT ![Len(xs)] = l.out_features])

----------------------------------------------------------------------------
(* SincConv                                                                *)

\* line 39: the guard of the in_channels error.
SincConv_bad_in_channels_gt(in_channels) == in_channels > 1
SincConv_bad_in_channels(in_channels) == in_channels # 1

\* lines 47-52: the kernel width stored on the object.
SincConv_kernel_size_asis(kernel_size) == kernel_size
SincConv_kernel_size(kernel_size) ==
    IF kernel_size % 2 = 0 THEN kernel_size + 1 ELSE kernel_size

\* lines 65-72: the band edges; out_channels + 1 points from 0 Hz to sample_rate/2.
SincConv_mel(out_channels, sample_rate) ==
    [n |-> out_channels + 1, points |-> NFFT \div 2 + 1, lo |-> 0, hi |-> sample_rate \div 2]

SincConv_init(a) ==
    IF SincConv_bad_in_channels(a.in_channels) THEN Raise("ValueError")
    ELSE IF a.bias THEN Raise("ValueError")
    ELSE IF a.groups > 1 THEN Raise("ValueError")
    ELSE IF a.out_channels.ty # "int" THEN Raise("TypeError")  \* line 70: list + 1
    ELSE LET oc == a.out_channels.v
             ks == SincConv_kernel_size(a.kernel_size)
         IN  Ok([cls          |-> "SincConv",
                 attrs        |-> {"out_channels", "kernel_size", "sample_rate", "stride",
                                   "padding", "dilation", "mel", "hsupp", "band_pass"},
                 out_channels |-> oc,
                 kernel_size  |-> ks,
                 sample_rate  |-> a.sample_rate,
                 stride       |-> a.stride,
                 padding      |-> a.padding,
                 dilation     |-> a.dilation,
                 mel          |-> SincConv_mel(oc, a.sample_rate),
                 hsupp        |-> [n |-> ks, lo |-> -((ks - 1) \div 2), hi |-> (ks - 1) \div 2],
                 band_pass    |-> [id |-> 0, shape |-> <<oc, ks>>, data |-> [kind |-> "zeros"]],
                 filters      |-> None])

\* lines 78-88: rows 0 .. len(mel) - 2 of band_pass are overwritten in place.
SincConv_band_pass_data(self) ==
    [kind |-> "hamming*hideal", rows |-> self.mel.n - 1,
     kernel_size |-> self.kernel_size, sample_rate |-> self.sample_rate]

SincConv_fill_band_pass_rebind(self) ==
    [self EXCEPT !.band_pass.id = @ + 1,
                 !.band_pass.data = SincConv_band_pass_data(self)]
SincConv_fill_band_pass(self) ==
    [self EXCEPT !.band_pass.data = SincConv_band_pass_data(self)]

\* lines 90-93: self.filters is bound to a view of band_pass.
SincConv_set_filters(self) ==
    [self EXCEPT !.attrs = @ \cup {"filters"},
                 !.filters = [cls |-> "view", base |-> self.band_pass.id,
                              shape |-> <<self.out_channels, 1, self.kernel_size>>]]

\* The object after a forward call and what the call returns or raises.
SincConv_forward(self, xs) ==
    LET s1 == SincConv_set_filters(SincConv_fill_band_pass(self))
    IN  [self |-> s1,
         out  |-> conv1d(xs, s1.filters.shape, s1.stride, s1.padding, s1.dilation, 1)]

----------------------------------------------------------------------------
(* Specification of the SincConv front-end in isolation.                   *)

SincArgs ==
    [out_channels : {PyInt(c) : c \in 1..MaxChan},
     kernel_size  : 1..MaxKernel,
     in_channels  : 0..3,
     sample_rate  : {DefaultSampleRate},
     stride       : {1, 2},
     padding      : {0, 1},
     dilation     : {1, 2},
     bias         : BOOLEAN,
     groups       : {1, 2}]

SincInputs == {<<b, c, l>> : b \in 1..2, c \in 1..2, l \in 0..MaxLen}

InitIdle ==
    /\ sinc = None
    /\ sincArgs = None
    /\ rb = None
    /\ d_args = None
    /\ d_args0 = None
    /\ models = <<>>
    /\ model = None
    /\ ret = [op |-> "none"]

SincConstruct ==
    \E a \in SincArgs :
        LET r == SincConv_init(a)
        IN  /\ sinc' = IF r.ok THEN r.val ELSE None
            /\ sincArgs' = IF r.ok THEN a ELSE None
            /\ ret' = [op |-> "SincConv.__init__", args |-> a, ok |-> r.ok, err |-> r.err]
            /\ UNCHANGED <<rb, d_args, d_args0, models, model>>

SincForward ==
    /\ sinc # None
    /\ \E xs \in SincInputs :
        LET r == SincConv_forward(sinc, xs)
        IN  /\ sinc' = r.self
            /\ ret' = [op |-> "SincConv.forward", x |-> xs, ok |-> r.out.ok,
                       err |-> r.out.err, val |-> r.out.val]
            /\ UNCHANGED <<sincArgs, rb, d_args, d_args0, models, model>>

NextSinc == SincConstruct \/ SincForward

SpecSinc == InitIdle /\ [][NextSinc]_vars

----------------------------------------------------------------------------
(* Residual_block                                                          *)

\* line 133: whether the block gets the 1x1 projection shortcut.
Residual_block_downsample_lt(nb_filts) == nb_filts[1] < nb_filts[2]
Residual_block_downsample(nb_filts) == nb_filts[1] # nb_filts[2]

\* nb_filts is the pair [in, out], a 1-indexed sequence here.
Residual_block_init(nb_filts, first) ==
    [cls             |-> "Residual_block",
     first           |-> first,
     bn1             |-> IF first THEN None ELSE BatchNorm(nb_filts[1]),
     conv1           |-> Conv1d(nb_filts[1], nb_filts[2], 3, 1, 1),
     bn2             |-> BatchNorm(nb_filts[2]),
     conv2           |-> Conv1d(nb_filts[2], nb_filts[2], 3, 1, 1),
     downsample      |-> Residual_block_downsample(nb_filts),
     conv_downsample |-> IF Residual_block_downsample(nb_filts)
                         THEN Conv1d(nb_filts[1], nb_filts[2], 1, 0, 1) ELSE None,
     mp              |-> [cls |-> "MaxPool1d", kernel_size |-> PoolSize]]

\* The block after a forward call on input of shape xs, and what the call
\* returns or raises.  conv1 is applied to x, not to the output of bn1.
Residual_block_forward(self, xs) ==
    LET b1 == IF self.first THEN [bn |-> None, err |-> "none"]
              ELSE BatchNormCall(self.bn1, xs, {2, 3})
        s1 == [self EXCEPT !.bn1 = b1.bn]
        c1 == Conv1dForward(self.conv1, xs)
        b2 == BatchNormCall(self.bn2, c1.val, {2, 3})
        s2 == [s1 EXCEPT !.bn2 = b2.bn]
        c2 == Conv1dForward(self.conv2, c1.val)
        idn == IF self.downsample THEN Conv1dForward(self.conv_downsample, xs) ELSE Ok(xs)
    IN  IF b1.err # "none" THEN [self |-> s1, out |-> Raise(b1.err)]
        ELSE IF ~c1.ok THEN [self |-> s1, out |-> c1]
        ELSE IF b2.err # "none" THEN [self |-> s2, out |-> Raise(b2.err)]
        ELSE IF ~c2.ok THEN [self |-> s2, out |-> c2]
        ELSE IF ~idn.ok THEN [self |-> s2, out |-> idn]
        ELSE IF ~AddInPlaceOk(c2.val, idn.val) THEN [self |-> s2, out |-> Raise("RuntimeError")]
        ELSE [self |-> s2, out |-> max_pool1d(c2.val, self.mp.kernel_size)]

\* num_batches_tracked of every batch norm of a block.
Residual_block_counters(self) ==
    {self.bn2.num_batches_tracked} \cup
    (IF self.first THEN {} ELSE {self.bn1.num_batches_tracked})

----------------------------------------------------------------------------
(* Specification of one Residual_block in isolation.                       *)

Pairs == {<<a, b>> : a \in 1..MaxChan, b \in 1..MaxChan}

BlockInputs == {<<b, c, l>> : b \in 2..3, c \in 1..MaxChan, l \in 1..MaxLen}

BlockConstruct ==
    \E nb \in Pairs, first \in BOOLEAN :
        /\ rb' = Residual_block_init(nb, first)
        /\ ret' = [op |-> "Residual_block.__init__", nb_filts |-> nb, first |-> first]
        /\ UNCHANGED <<sinc, sincArgs, d_args, d_args0, models, model>>

BlockForward ==
    /\ rb # None
    /\ \E xs \in BlockInputs :
        LET r == Residual_block_forward(rb, xs)
        IN  /\ \A n \in Residual_block_counters(r.self) : n <= MaxForward
            /\ rb' = r.self
            /\ ret' = [op |-> "Residual_block.forward", x |-> xs, ok |-> r.out.ok,
                       err |-> r.out.err, val |-> r.out.val]
            /\ UNCHANGED <<sinc, sincArgs, d_args, d_args0, models, model>>

NextBlock == BlockConstruct \/ BlockForward

SpecBlock == InitIdle /\ [][NextBlock]_vars

----------------------------------------------------------------------------
(* Model2: the attention-gated 1-D model                                   *)

\* One statement of Model2.__init__: which attribute it builds (kind, i), which
\* entry of d_args["filts"] it reads, and the `first` flag of a block.
Stmt(kind, i, filts, first) == [kind |-> kind, i |-> i, filts |-> filts, first |-> first]

\* The statements of Model2.__init__ in source order (lines 276-338).
Model2_init_body_late_adjust ==
    <<Stmt("Sinc_conv", 0, 0, FALSE), Stmt("first_bn", 0, 0, FALSE), Stmt("selu", 0, 0, FALSE),
      Stmt("block", 0, 1, TRUE), Stmt("block", 1, 1, FALSE), Stmt("block", 2, 2, FALSE),
      Stmt("block", 3, 2, FALSE), Stmt("adjust", 0, 2, FALSE),
      Stmt("block", 4, 2, FALSE), Stmt("block", 5, 2, FALSE), Stmt("avgpool", 0, 0, FALSE),
      Stmt("fc_attention", 0, 1, FALSE), Stmt("fc_attention", 1, 1, FALSE),
      Stmt("fc_attention", 2, 2, FALSE), Stmt("fc_attention", 3, 2, FALSE),
      Stmt("fc_attention", 4, 2, FALSE), Stmt("fc_attention", 5, 2, FALSE),
      Stmt("bn_before_gru", 0, 2, FALSE), Stmt("gru", 0, 2, FALSE),
      Stmt("fc1_gru", 0, 0, FALSE), Stmt("fc2_gru", 0, 0, FALSE),
      Stmt("sig", 0, 0, FALSE), Stmt("logsoftmax", 0, 0, FALSE)>>
Model2_init_body ==
    <<Stmt("Sinc_conv", 0, 0, FALSE), Stmt("first_bn", 0, 0, FALSE), Stmt("selu", 0, 0, FALSE),
      Stmt("block", 0, 1, TRUE), Stmt("block", 1, 1, FALSE), Stmt("block", 2, 2, FALSE),
      Stmt("adjust", 0, 2, FALSE),
      Stmt("block", 3, 2, FALSE), Stmt("block", 4, 2, FALSE), Stmt("block", 5, 2, FALSE),
      Stmt("avgpool", 0, 0, FALSE),
      Stmt("fc_attention", 0, 1, FALSE), Stmt("fc_attention", 1, 1, FALSE),
      Stmt("fc_attention", 2, 2, FALSE), Stmt("fc_attention", 3, 2, FALSE),
      Stmt("fc_attention", 4, 2, FALSE), Stmt("fc_attention", 5, 2, FALSE),
      Stmt("bn_before_gru", 0, 2, FALSE), Stmt("gru", 0, 2, FALSE),
      Stmt("fc1_gru", 0, 0, FALSE), Stmt("fc2_gru", 0, 0, FALSE),
      Stmt("sig", 0, 0, FALSE), Stmt("logsoftmax", 0, 0, FALSE)>>

\* d_args["filts"][j] for j = 1, 2.
Filts(d, j) == IF j = 1 THEN d.filts1 ELSE d.filts2

\* line 291: d_args["filts"][2][0] = d_args["filts"][2][1].
Model2_adjust_reversed(d) == [d EXCEPT !.filts2[2] = d.filts2[1]]
Model2_adjust_skipped(d) == d
Model2_adjust(d) == [d EXCEPT !.filts2[1] = d.filts2[2]]

\* The arguments Model2.__init__ and Model.__init__ pass to SincConv.
SincArgsOf(d) ==
    [out_channels |-> d.filts0, kernel_size |-> d.first_conv, in_channels |-> d.in_channels,
     sample_rate |-> DefaultSampleRate, stride |-> 1, padding |-> 0, dilation |-> 1,
     bias |-> FALSE, groups |-> 1]

\* nn.GRU(input_size, hidden_size, num_layers, batch_first=True).
GRU(input_size, hidden_size, num_layers) ==
    [cls |-> "GRU", input_size |-> input_size, hidden_size |-> hidden_size,
     num_layers |-> num_layers, batch_first |-> TRUE]

GRUForward(g, xs) ==
    IF Len(xs) # 3 \/ xs[3] # g.input_size THEN Raise("RuntimeError")
    ELSE Ok(<<xs[1], xs[2], g.hidden_size>>)

Model2_blank ==
    [cls |-> "Model2", Sinc_conv |-> None, first_bn |-> None, selu |-> None,
     blocks |-> [i \in 0..5 |-> None], avgpool |-> None,
     fc_attention |-> [i \in 0..5 |-> None],
     bn_before_gru |-> None, gru |-> None, fc1_gru |-> None, fc2_gru |-> None,
     sig |-> None, logsoftmax |-> None]

\* The effect of one statement of the constructor on (configuration, object).
Model2_exec(stmt, st) ==
    LET d == st.d
        self == st.self
        last == Filts(d, stmt.filts)[2]
    IN  IF st.err # "none" THEN st
        ELSE CASE stmt.kind = "Sinc_conv" ->
                    LET r == SincConv_init(SincArgsOf(d))
                    IN  IF r.ok THEN [st EXCEPT !.self.Sinc_conv = r.val]
                        ELSE [st EXCEPT !.err = r.err]
               [] stmt.kind = "first_bn" ->
                    [st EXCEPT !.self.first_bn = BatchNorm(d.filts0.v)]
               [] stmt.kind = "selu" ->
                    [st EXCEPT !.self.selu = [cls |-> "SELU", inplace |-> TRUE]]
               [] stmt.kind = "block" ->
                    [st EXCEPT !.self.blocks[stmt.i] =
                         Residual_block_init(Filts(d, stmt.filts), stmt.first)]
               [] stmt.kind = "adjust" ->
                    [st EXCEPT !.d = Model2_adjust(d)]
               [] stmt.kind = "avgpool" ->
                    [st EXCEPT !.self.avgpool = [cls |-> "AdaptiveAvgPool1d", output_size |-> 1]]
               [] stmt.kind = "fc_attention" ->
                    [st EXCEPT !.self.fc_attention[stmt.i] = Linear(last, last)]
               [] stmt.kind = "bn_before_gru" ->
                    [st EXCEPT !.self.bn_before_gru = BatchNorm(last)]
               [] stmt.kind = "gru" ->
                    [st EXCEPT !.self.gru = GRU(last, d.gru_node, d.nb_gru_layer)]
               [] stmt.kind = "fc1_gru" ->
                    [st EXCEPT !.self.fc1_gru = Linear(d.gru_node, d.nb_fc_node)]
               [] stmt.kind = "fc2_gru" ->
                    [st EXCEPT !.self.fc2_gru = Linear(d.nb_fc_node, d.nb_classes)]
               [] stmt.kind = "sig" ->
                    [st EXCEPT !.self.sig = [cls |-> "Sigmoid"]]
               [] stmt.kind = "logsoftmax" ->
                    [st EXCEPT !.self.logsoftmax = [cls |-> "LogSoftmax", dim |-> 1]]

\* The statements of body from the k-th on, executed in order.
RECURSIVE Model2_run(_, _, _)
Model2_run(body, k, st) ==
    IF k > Len(body) THEN st
    ELSE CHOOSE r \in {Model2_run(body, k + 1, st1) : st1 \in {Model2_exec(body[k], st)}} : TRUE

\* Model2(d_args): the configuration afterwards, the object, the error raised.
Model2_init(d) ==
    Model2_run(Model2_init_body, 1, [d |-> d, self |-> Model2_blank, err |-> "none"])

\* A returned tensor: its name in forward, its shape, the layer that produced it.
T(name, shape, op) == [name |-> name, shape |-> shape, op |-> op]

\* line 409: the pair forward returns.
Model2_return_swapped(last_hidden, output) == <<output, last_hidden>>
Model2_return(last_hidden, output) == <<last_hidden, output>>

\* The statements of Model2.forward in source order (lines 342-409).
Model2_forward_body ==
    <<Stmt("view", 0, 0, FALSE), Stmt("Sinc_conv", 0, 0, FALSE),
      Stmt("max_pool1d", 0, 0, FALSE), Stmt("first_bn", 0, 0, FALSE), Stmt("selu", 0, 0, FALSE),
      Stmt("block", 0, 0, FALSE), Stmt("gate", 0, 0, FALSE),
      Stmt("block", 1, 0, FALSE), Stmt("gate", 1, 0, FALSE),
      Stmt("block", 2, 0, FALSE), Stmt("gate", 2, 0, FALSE),
      Stmt("block", 3, 0, FALSE), Stmt("gate", 3, 0, FALSE),
      Stmt("block", 4, 0, FALSE), Stmt("gate", 4, 0, FALSE),
      Stmt("block", 5, 0, FALSE), Stmt("gate", 5, 0, FALSE),
      Stmt("bn_before_gru", 0, 0, FALSE), Stmt("selu", 0, 0, FALSE),
      Stmt("permute", 0, 0, FALSE), Stmt("gru", 0, 0, FALSE), Stmt("last_step", 0, 0, FALSE),
      Stmt("fc1_gru", 0, 0, FALSE), Stmt("fc2_gru", 0, 0, FALSE),
      Stmt("logsoftmax", 0, 0, FALSE), Stmt("return", 0, 0, FALSE)>>

\* The effect of one statement of forward on p: the module (self), the shape of
\* the local x, the shape of last_hidden, the error raised, the value returned.
Model2_forward_exec(stmt, p) ==
    LET self == p.self
        x    == p.x
    IN  IF p.err # "none" THEN p
        ELSE CASE stmt.kind = "view" ->              \* x.view(nb_samp, 1, len_seq)
                    [p EXCEPT !.x = <<x[1], 1, x[2]>>]
               [] stmt.kind = "Sinc_conv" ->
                    LET r == SincConv_forward(self.Sinc_conv, x)
                    IN  [p EXCEPT !.self.Sinc_conv = r.self, !.x = r.out.val,
                                  !.err = r.out.err]
               [] stmt.kind = "max_pool1d" ->        \* F.max_pool1d(torch.abs(x), 3)
                    LET r == max_pool1d(x, PoolSize)
                    IN  [p EXCEPT !.x = r.val, !.err = r.err]
               [] stmt.kind = "first_bn" ->
                    LET r == BatchNormCall(self.first_bn, x, {2, 3})
                    IN  [p EXCEPT !.self.first_bn = r.bn, !.err = r.err]
               [] stmt.kind = "selu" -> p
               [] stmt.kind = "block" ->             \* x_i = self.block_i(x)
                    LET r == Residual_block_forward(self.blocks[stmt.i], x)
                    IN  [p EXCEPT !.self.blocks[stmt.i] = r.self, !.x = r.out.val,
                                  !.err = r.out.err]
               [] stmt.kind = "gate" ->              \* x = x_i * y_i + y_i
                    LET yv == <<x[1], x[2] * 1>>     \* avgpool(x_i).view(x_i.size(0), -1)
                        y  == LinearForward(self.fc_attention[stmt.i], yv)
                        yg == <<y.val[1], y.val[2], 1>>   \* sig(y).view(y.size(0), y.size(1), -1)
                    IN  IF ~y.ok THEN [p EXCEPT !.err = y.err, !.x = <<>>]
                        ELSE IF ~(AddInPlaceOk(x, yg) \/ AddInPlaceOk(yg, x))
                             THEN [p EXCEPT !.err = "RuntimeError", !.x = <<>>]
                        ELSE p
               [] stmt.kind = "bn_before_gru" ->
                    LET r == BatchNormCall(self.bn_before_gru, x, {2, 3})
                    IN  [p EXCEPT !.self.bn_before_gru = r.bn, !.err = r.err]
               [] stmt.kind = "permute" ->           \* x.permute(0, 2, 1)
                    [p EXCEPT !.x = <<x[1], x[3], x[2]>>]
               [] stmt.kind = "gru" ->
                    LET r == GRUForward(self.gru, x)
                    IN  [p EXCEPT !.x = r.val, !.err = r.err]
               [] stmt.kind = "last_step" ->         \* x[:, -1, :]
                    IF x[2] < 1 THEN [p EXCEPT !.err = "IndexError", !.x = <<>>]
                    ELSE [p EXCEPT !.x = <<x[1], x[3]>>]
               [] stmt.kind = "fc1_gru" ->
                    LET r == LinearForward(self.fc1_gru, x)
                    IN  [p EXCEPT !.last_hidden = r.val, !.err = r.err]
               [] stmt.kind = "fc2_gru" ->
                    LET r == LinearForward(self.fc2_gru, p.last_hidden)
                    IN  [p EXCEPT !.x = r.val, !.err = r.err]
               [] stmt.kind = "logsoftmax" -> p      \* the shape is kept
               [] stmt.kind = "return" ->
                    [p EXCEPT !.val = Model2_return(T("last_hidden", p.last_hidden, "fc1_gru"),
                                                    T("output", x, "logsoftmax(dim=1)"))]

\* The statements of body from the k-th on, executed in order.
RECURSIVE Model2_forward_run(_, _, _)
Model2_forward_run(body, k, p) ==
    IF k > Len(body) THEN p
    ELSE CHOOSE r \in {Model2_forward_run(body, k + 1, p1) :
                          p1 \in {Model2_forward_exec(body[k], p)}} : TRUE

\* The model after forward(x, Freq_aug) on a 2-D input of shape xs, and what it
\* returns or raises.  Freq_aug is not read.
Model2_forward(self, xs, Freq_aug) ==
    LET p == Model2_forward_run(Model2_forward_body, 1,
                 [self |-> self, x |-> xs, last_hidden |-> <<>>, err |-> "none", val |-> <<>>])
    IN  [self |-> p.self, out |-> IF p.err = "none" THEN Ok(p.val) ELSE Raise(p.err)]

\* The forward calls that reached first_bn, the first batch norm of forward,
\* summed over a sequence of Model2 objects.
RECURSIVE Model2_tracked(_)
Model2_tracked(ms) ==
    IF ms = <<>> THEN 0
    ELSE Head(ms).first_bn.num_batches_tracked + Model2_tracked(Tail(ms))

----------------------------------------------------------------------------
(* Specification of Model2: construction from a configuration, forward.    *)

Config(in_channels, first_conv, filts0, filts1, filts2, gru_node, nb_gru_layer, nb_fc_node, nb_classes) ==
    [in_channels |-> in_channels, first_conv |-> first_conv, filts0 |-> filts0,
     filts1 |-> filts1, filts2 |-> filts2, gru_node |-> gru_node,
     nb_gru_layer |-> nb_gru_layer, nb_fc_node |-> nb_fc_node, nb_classes |-> nb_classes]

\* Small configurations: every channel count is 1 or 2.
ConfigChans == {1, 2}
ConfigPairs == {<<a, b>> : a \in ConfigChans, b \in ConfigChans}
SmallConfigs ==
    {Config(ic, fc, PyInt(f0), f1, f2, 2, 1, 3, 2) :
        ic \in {1, 2}, fc \in {4}, f0 \in ConfigChans,
        f1 \in ConfigPairs, f2 \in ConfigPairs}

\* The end-to-end configuration filts = [[70], [1, 32], [32, 64]], and the same
\* with filts[0] the integer 70.
EndToEndConfig(f0) == Config(1, 128, f0, <<1, 32>>, <<32, 64>>, 128, 3, 128, 2)
EndToEndConfigs == {EndToEndConfig(f0) : f0 \in {PyList1(70), PyInt(70)}}

Configs == SmallConfigs \cup EndToEndConfigs

\* Waveform batches [batch, length].
Waveforms == {<<1, 1>>, <<4, MaxLen>>, <<1, 3000>>, <<4, 16000>>}

\* Values of the Freq_aug argument of forward.
FreqAugs == {"None", "True"}

InitConfig ==
    /\ sinc = None
    /\ sincArgs = None
    /\ rb = None
    /\ d_args \in Configs
    /\ d_args0 = d_args
    /\ models = <<>>
    /\ model = None
    /\ ret = [op |-> "none"]

Model2Construct ==
    /\ Len(models) < MaxModels
    /\ \E r \in {Model2_init(d_args)} :
           /\ d_args' = r.d
           /\ models' = IF r.err = "none" THEN Append(models, r.self) ELSE models
           /\ ret' = [op |-> "Model2.__init__", ok |-> r.err = "none", err |-> r.err]
           /\ UNCHANGED <<sinc, sincArgs, rb, d_args0, model>>

Model2Forward ==
    \E i \in 1..Len(models), xs \in Waveforms, fa \in FreqAugs :
        \E r \in {Model2_forward(models[i], xs, fa)} :
            /\ Model2_tracked([models EXCEPT ![i] = r.self]) <= MaxForward
            /\ models' = [models EXCEPT ![i] = r.self]
            /\ ret' = [op |-> "Model2.forward", i |-> i, x |-> xs, Freq_aug |-> fa,
                       ok |-> r.out.ok, err |-> r.out.err, val |-> r.out.val]
            /\ UNCHANGED <<sinc, sincArgs, rb, d_args, d_args0, model>>

NextModel2 == Model2Construct \/ Model2Forward

SpecModel2 == InitConfig /\ [][NextModel2]_vars

----------------------------------------------------------------------------
(* BasicBlock and Model: the 2-D backbone                                  *)

Conv2d(cin, cout, k, s, p) ==
    [cls |-> "Conv2d", in_channels |-> cin, out_channels |-> cout,
     kernel_size |-> k, stride |-> s, padding |-> p]

\* nn.Conv2d / nn.MaxPool2d on a 4-D input [batch, channels, height, width].
Window2d(xs, cout, k, s, p) ==
    IF xs[3] + 2 * p < k \/ xs[4] + 2 * p < k THEN Raise("RuntimeError")
    ELSE Ok(<<xs[1], cout, WindowLen(xs[3], k, s, p, 1), WindowLen(xs[4], k, s, p, 1)>>)

Conv2dForward(c, xs) ==
    IF Len(xs) # 4 THEN Raise("RuntimeError")
    ELSE IF xs[2] # c.in_channels THEN Raise("RuntimeError")
    ELSE Window2d(xs, c.out_channels, c.kernel_size, c.stride, c.padding)

BasicBlock_init(in_channels, out_channels, stride) ==
    [cls      |-> "BasicBlock",
     conv1    |-> Conv2d(in_channels, out_channels, 3, stride, 1),
     bn1      |-> BatchNorm(out_channels),
     relu     |-> [cls |-> "ReLU", inplace |-> TRUE],
     conv2    |-> Conv2d(out_channels, out_channels, 3, 1, 1),
     bn2      |-> BatchNorm(out_channels),
     shortcut |-> IF stride # 1 \/ in_channels # out_channels
                  THEN <<Conv2d(in_channels, out_channels, 1, stride, 0),
                         BatchNorm(out_channels)>>
                  ELSE <<>>]

BasicBlock_forward(self, xs) ==
    LET c1 == Conv2dForward(self.conv1, xs)
        b1 == BatchNormCall(self.bn1, c1.val, {4})
        s1 == [self EXCEPT !.bn1 = b1.bn]
        c2 == Conv2dForward(self.conv2, c1.val)
        b2 == BatchNormCall(self.bn2, c2.val, {4})
        s2 == [s1 EXCEPT !.bn2 = b2.bn]
        sc == Conv2dForward(self.shortcut[1], xs)
        b3 == BatchNormCall(self.shortcut[2], sc.val, {4})
        s3 == [s2 EXCEPT !.shortcut[2] = b3.bn]
    IN  IF ~c1.ok THEN [self |-> self, out |-> c1]
        ELSE IF b1.err # "none" THEN [self |-> s1, out |-> Raise(b1.err)]
        ELSE IF ~c2.ok THEN [self |-> s1, out |-> c2]
        ELSE IF b2.err # "none" THEN [self |-> s2, out |-> Raise(b2.err)]
        ELSE IF self.shortcut = <<>>
             THEN [self |-> s2,
                   out  |-> IF AddInPlaceOk(c2.val, xs) THEN c2 ELSE Raise("RuntimeError")]
        ELSE IF ~sc.ok THEN [self |-> s2, out |-> sc]
        ELSE IF b3.err # "none" THEN [self |-> s3, out |-> Raise(b3.err)]
        ELSE [self |-> s3,
              out  |-> IF AddInPlaceOk(c2.val, sc.val) THEN c2 ELSE Raise("RuntimeError")]

\* Model._make_layer (lines 239-245): given the value of self.in_channels on
\* entry, the blocks of the layer and the value of self.in_channels on exit.
RECURSIVE Model_make_layer(_, _, _, _)
Model_make_layer(in_channels, out_channels, num_blocks, stride) ==
    IF num_blocks = 0 THEN [in_channels |-> in_channels, layers |-> <<>>]
    ELSE LET rest == Model_make_layer(out_channels, out_channels, num_blocks - 1, 1)
         IN  [in_channels |-> rest.in_channels,
              layers |-> <<BasicBlock_init(in_channels, out_channels, stride)>> \o rest.layers]

\* Model(d_args) (lines 195-237).  The attribute selu is never assigned.
Model_init(d) ==
    LET sc == SincConv_init(SincArgsOf(d))
        layer1 == Model_make_layer(d.in_channels, 64, 2, 1)
        layer2 == Model_make_layer(layer1.in_channels, 128, 2, 2)
        layer3 == Model_make_layer(layer2.in_channels, 256, 2, 2)
        layer4 == Model_make_layer(layer3.in_channels, 512, 2, 2)
    IN  IF ~sc.ok THEN sc
        ELSE Ok([cls           |-> "Model",
                 attrs         |-> {"Sinc_conv", "in_channels", "conv1", "bn1", "relu",
                                    "maxpool", "layer1", "layer2", "layer3", "layer4",
                                    "avgpool", "bn_before_gru", "gru", "fc1_gru",
                                    "fc2_gru", "sig", "logsoftmax"},
                 Sinc_conv     |-> sc.val,
                 in_channels   |-> layer4.in_channels,
                 conv1         |-> Conv2d(3, StemWidth, 3, 1, 1),
                 bn1           |-> BatchNorm(StemWidth),
                 maxpool       |-> [cls |-> "MaxPool2d", kernel_size |-> 3, stride |-> 2,
                                    padding |-> 1],
                 layers        |-> layer1.layers \o layer2.layers \o layer3.layers
                                    \o layer4.layers,
                 bn_before_gru |-> BatchNorm(d.filts2[2]),
                 gru           |-> GRU(d.filts2[2], d.gru_node, d.nb_gru_layer),
                 fc1_gru       |-> Linear(d.gru_node, d.nb_fc_node),
                 fc2_gru       |-> Linear(d.nb_fc_node, d.nb_classes)])

\* layer1 .. layer4 applied in order (lines 253-256).
RECURSIVE Model_layers(_, _, _)
Model_layers(self, xs, k) ==
    IF k > Len(self.layers) THEN [self |-> self, out |-> Ok(xs)]
    ELSE CHOOSE q \in
            {IF r.out.ok THEN Model_layers([self EXCEPT !.layers[k] = r.self], r.out.val, k + 1)
             ELSE [self |-> [self EXCEPT !.layers[k] = r.self], out |-> r.out] :
                 r \in {BasicBlock_forward(self.layers[k], xs)}} : TRUE

\* lines 258-268: pooling, normalisation, the missing selu, GRU and the head.
Model_head(self, xs) ==
    LET ap == <<xs[1], xs[2], 1, 1>>                \* AdaptiveAvgPool2d((1, 1))
        b  == BatchNormCall(self.bn_before_gru, ap, {2, 3})
        s1 == [self EXCEPT !.bn_before_gru = b.bn]
        g  == GRUForward(self.gru, <<ap[1], ap[3], ap[2]>>)
        f1 == LinearForward(self.fc1_gru, <<g.val[1], g.val[3]>>)
        f2 == LinearForward(self.fc2_gru, f1.val)
    IN  IF b.err # "none" THEN [self |-> s1, out |-> Raise(b.err)]
        ELSE IF "selu" \notin self.attrs THEN [self |-> s1, out |-> Raise("AttributeError")]
        ELSE IF ~g.ok THEN [self |-> s1, out |-> g]
        ELSE IF ~f1.ok THEN [self |-> s1, out |-> f1]
        ELSE IF ~f2.ok THEN [self |-> s1, out |-> f2]
        ELSE [self |-> s1, out |-> Ok(<<T("output", f2.val, "logsoftmax(dim=1)"),
                                        T("last_hidden", f1.val, "fc1_gru")>>)]

\* The model after forward(x, Freq_aug) on an image batch of shape xs, and what
\* it returns.  Freq_aug is not read.
Model_forward(self, xs, Freq_aug) ==
    LET c1 == Conv2dForward(self.conv1, xs)
        b1 == BatchNormCall(self.bn1, c1.val, {4})
        s1 == [self EXCEPT !.bn1 = b1.bn]
        mp == Window2d(c1.val, c1.val[2], self.maxpool.kernel_size, self.maxpool.stride,
                       self.maxpool.padding)
        ly == Model_layers(s1, mp.val, 1)
    IN  IF ~c1.ok THEN [self |-> self, out |-> c1]
        ELSE IF b1.err # "none" THEN [self |-> s1, out |-> Raise(b1.err)]
        ELSE IF ~mp.ok THEN [self |-> s1, out |-> mp]
        ELSE IF ~ly.out.ok THEN ly
        ELSE Model_head(ly.self, ly.out.val)

----------------------------------------------------------------------------
(* Specification of the 2-D backbone Model.                                *)

Images == {<<b, c, h, h>> : b \in {1, 2}, c \in {1, 3}, h \in {1, MaxLen, 32}}

ModelConstruct ==
    LET r == Model_init(d_args)
    IN  /\ model' = IF r.ok THEN r.val ELSE None
        /\ ret' = [op |-> "Model.__init__", ok |-> r.ok, err |-> r.err]
        /\ UNCHANGED <<sinc, sincArgs, rb, d_args, d_args0, models>>

ModelForward ==
    /\ model # None
    /\ model.bn1.num_batches_tracked < MaxForward
    /\ \E xs \in Images, fa \in FreqAugs :
        LET r == Model_forward(model, xs, fa)
        IN  /\ model' = r.self
            /\ ret' = [op |-> "Model.forward", x |-> xs, Freq_aug |-> fa, ok |-> r.out.ok,
                       err |-> r.out.err, val |-> r.out.val]
            /\ UNCHANGED <<sinc, sincArgs, rb, d_args, d_args0, models>>

NextModel == ModelConstruct \/ ModelForward

SpecModel == InitConfig /\ [][NextModel]_vars

----------------------------------------------------------------------------
(* Properties.                                                             *)

\* The [in, out] pair a Residual_block was built from.
BlockFilts(b) == <<b.conv1.in_channels, b.conv1.out_channels>>

\* C1: SincConv(...) raises ValueError whenever in_channels # 1, or bias is true,
\* or groups > 1, whatever the other arguments; so no SincConv object exists that
\* was built from such arguments, and forward never raises ValueError.
C1_ConfigErrorsAtConstruction ==
    /\ (ret.op = "SincConv.__init__"
          /\ (ret.args.in_channels # 1 \/ ret.args.bias \/ ret.args.groups > 1))
       => (~ret.ok /\ ret.err = "ValueError" /\ sinc = None)
    /\ sinc # None
       => (sincArgs.in_channels = 1 /\ ~sincArgs.bias /\ sincArgs.groups <= 1)
    /\ ret.op = "SincConv.forward" => ret.err # "ValueError"

C1_Witness ==
    /\ ret.op = "SincConv.__init__"
    /\ ret.args.in_channels = 1 /\ ~ret.args.bias /\ ret.args.groups = 2
    /\ ret.err = "ValueError"

\* C2: once a Model2 has been constructed from d_args, filts[2][0] equals
\* filts[2][1], and every other entry of d_args has the value the caller passed.
C2_OnlyFilts20Adjusted ==
    Len(models) >= 1
    => /\ d_args.filts2[1] = d_args.filts2[2]
       /\ d_args = [d_args0 EXCEPT !.filts2[1] = d_args0.filts2[2]]

C2_Witness ==
    /\ Len(models) >= 1
    /\ d_args0.filts2[1] # d_args0.filts2[2]
    /\ ret.op = "Model2.__init__"

\* C3: every Model2.forward call that completes returns the pair (embedding,
\* log-probabilities): first the fc1_gru output of shape [batch, nb_fc_node],
\* second the log-softmax output of shape [batch, nb_classes], for every Freq_aug.
C3_ReturnsEmbeddingThenLogProbs ==
    (ret.op = "Model2.forward" /\ ret.ok)
    => /\ ret.val[1] = T("last_hidden", <<ret.x[1], d_args.nb_fc_node>>, "fc1_gru")
       /\ ret.val[2] = T("output", <<ret.x[1], d_args.nb_classes>>, "logsoftmax(dim=1)")

C3_Witness ==
    /\ ret.op = "Model2.forward" /\ ret.ok
    /\ ret.Freq_aug = "True"
    /\ d_args.nb_fc_node # d_args.nb_classes

\* C4: with filts = [70, [1, 32], [32, 64]] (the front-end width given as the
\* integer 70), gru_node = 128, nb_gru_layer = 3, nb_fc_node = 128 and
\* nb_classes = 2, construction succeeds and forward on a batch of 4 waveforms of
\* length 16000 runs every stage without a channel or shape mismatch and yields
\* log-probabilities (a log-softmax over the class dimension) of shape [4, 2].
C4_EndToEndRuns ==
    d_args0 = EndToEndConfig(PyInt(70))
    => /\ ret.op = "Model2.__init__" => ret.ok
       /\ (ret.op = "Model2.forward" /\ ret.x = <<4, 16000>>)
          => (ret.ok /\ ret.val[2] = T("output", <<4, 2>>, "logsoftmax(dim=1)"))

\* The kernel width SincConv uses: the next odd integer when kernel_size is even.
EffectiveKernel(kernel_size) == kernel_size + 1 - (kernel_size % 2)

\* C5 as stated: with padding = 0 and dilation = 1, for the kernel_size passed to
\* the constructor (even or odd) and an input [B, 1, L] with L >= kernel_size,
\* forward returns shape [B, out_channels, floor((L - kernel_size)/stride) + 1].
C5_LengthFromPassedKernelSize ==
    (/\ ret.op = "SincConv.forward"
     /\ sincArgs.padding = 0 /\ sincArgs.dilation = 1
     /\ ret.x[2] = 1 /\ ret.x[3] >= sincArgs.kernel_size)
    => /\ ret.ok
       /\ ret.val = <<ret.x[1], sincArgs.out_channels.v,
                      (ret.x[3] - sincArgs.kernel_size) \div sincArgs.stride + 1>>

\* C5 amended: the same with the effective kernel width (kernel_size if odd,
\* kernel_size + 1 if even) in place of kernel_size, for L at least that width.
C5_LengthFromEffectiveKernelSize ==
    (/\ ret.op = "SincConv.forward"
     /\ sincArgs.padding = 0 /\ sincArgs.dilation = 1
     /\ ret.x[2] = 1 /\ ret.x[3] >= EffectiveKernel(sincArgs.kernel_size))
    => /\ ret.ok
       /\ ret.val = <<ret.x[1], sincArgs.out_channels.v,
                      (ret.x[3] - EffectiveKernel(sincArgs.kernel_size))
                          \div sincArgs.stride + 1>>

C5_Witness ==
    /\ ret.op = "SincConv.forward" /\ ret.ok
    /\ sincArgs.padding = 0 /\ sincArgs.dilation = 1 /\ sincArgs.stride = 2
    /\ sincArgs.kernel_size % 2 = 0
    /\ ret.x[3] > sincArgs.kernel_size + 1

\* The construction part of C6: a block has the projection shortcut, a 1x1
\* convolution c_in -> c_out, exactly when c_in # c_out.
BlockShortcutIffChannelsDiffer ==
    rb # None
    => /\ rb.downsample <=> (BlockFilts(rb)[1] # BlockFilts(rb)[2])
       /\ rb.conv_downsample =
              IF BlockFilts(rb)[1] # BlockFilts(rb)[2]
              THEN Conv1d(BlockFilts(rb)[1], BlockFilts(rb)[2], 1, 0, 1) ELSE None

\* C6 as stated: the shortcut exists iff c_in # c_out, and for every input
\* [B, c_in, L] forward returns c_out channels and length floor(L / 3).
C6_BlockShapeForEveryLength ==
    /\ BlockShortcutIffChannelsDiffer
    /\ (ret.op = "Residual_block.forward" /\ ret.x[2] = BlockFilts(rb)[1])
       => (ret.ok /\ ret.val = <<ret.x[1], BlockFilts(rb)[2], ret.x[3] \div 3>>)

\* C6 amended: the same for every input [B, c_in, L] with L >= 3.
C6_BlockShapeForLengthAtLeast3 ==
    /\ BlockShortcutIffChannelsDiffer
    /\ (ret.op = "Residual_block.forward" /\ ret.x[2] = BlockFilts(rb)[1] /\ ret.x[3] >= 3)
       => (ret.ok /\ ret.val = <<ret.x[1], BlockFilts(rb)[2], ret.x[3] \div 3>>)

C6_Witness ==
    /\ ret.op = "Residual_block.forward" /\ ret.ok
    /\ rb.downsample /\ ~rb.first
    /\ ret.x[3] = MaxLen

\* A batch norm without its running statistics.
NoStats(bn) == IF bn = None THEN None ELSE [bn EXCEPT !.num_batches_tracked = 0]

\* A Model2 without the running statistics of its batch norms.
Model2_NoStats(m) ==
    [m EXCEPT !.first_bn = NoStats(@),
              !.bn_before_gru = NoStats(@),
              !.blocks = [i \in 0..5 |-> [@[i] EXCEPT !.bn1 = NoStats(@),
                                                     !.bn2 = NoStats(@)]]]

\* A Model2 without running statistics and without the contents of the
\* SincConv filter bank and the attribute filters.
Model2_NoStatsNoBank(m) ==
    [Model2_NoStats(m) EXCEPT !.Sinc_conv.band_pass.data = [kind |-> "any"],
                              !.Sinc_conv.filters = None,
                              !.Sinc_conv.attrs = @ \ {"filters"}]

\* C7 as stated: a forward call changes nothing of a module but batch-norm
\* running statistics; SincConv's filter bank has the same contents and SincConv
\* the same attributes before and after.
C7_ForwardChangesOnlyRunningStats ==
    [][ret'.op = "Model2.forward"
       => \A i \in 1..Len(models) : Model2_NoStats(models'[i]) = Model2_NoStats(models[i])]_vars

\* C7 amended: a forward call replaces or removes no attribute created at
\* construction and changes nothing but batch-norm running statistics, the
\* contents of SincConv.band_pass (the same tensor object, overwritten in place
\* with the synthesized filters) and SincConv's attribute filters, which it binds
\* (the attribute does not exist before the first call); a SincConv that has
\* already run forward is left as it was.
C7_ForwardChangesStatsAndFilterBank ==
    [][ret'.op = "Model2.forward"
       => /\ Len(models') = Len(models)
          /\ \A i \in 1..Len(models) :
                /\ Model2_NoStatsNoBank(models'[i]) = Model2_NoStatsNoBank(models[i])
                /\ models'[i].Sinc_conv.band_pass.id = models[i].Sinc_conv.band_pass.id
                /\ models[i].Sinc_conv.attrs \subseteq models'[i].Sinc_conv.attrs
                /\ "filters" \in models[i].Sinc_conv.attrs
                   => models'[i].Sinc_conv = models[i].Sinc_conv
          /\ LET sc == models'[ret'.i].Sinc_conv
             IN  /\ sc.band_pass.data.kind = "hamming*hideal"
                 /\ sc.attrs = models[ret'.i].Sinc_conv.attrs \cup {"filters"}]_vars

C7_Witness ==
    /\ ret.op = "Model2.forward" /\ ret.ok
    /\ "filters" \in models[ret.i].Sinc_conv.attrs
    /\ models[ret.i].Sinc_conv.band_pass.data.kind = "hamming*hideal"
    /\ models[ret.i].bn_before_gru.num_batches_tracked = 1

\* C8: in every Model2 built from a configuration cfg, block0 and block1 are
\* built from filts[1], block2 from the pair filts[2] as passed (shortcut iff its
\* entries differ), and block3, block4, block5 with in = out = filts[2][1] and no
\* shortcut: the adjustment happens once, after block2 and before block3.
C8_AdjustBetweenBlock2AndBlock3 ==
    \A i \in 1..Len(models) :
        LET m   == models[i]
            cfg == IF i = 1 THEN d_args0 ELSE d_args
        IN  /\ BlockFilts(m.blocks[0]) = cfg.filts1 /\ m.blocks[0].first
            /\ BlockFilts(m.blocks[1]) = cfg.filts1 /\ ~m.blocks[1].first
            /\ BlockFilts(m.blocks[2]) = cfg.filts2
            /\ m.blocks[2].downsample <=> (cfg.filts2[1] # cfg.filts2[2])
            /\ \A k \in 3..5 :
                  /\ BlockFilts(m.blocks[k]) = <<cfg.filts2[2], cfg.filts2[2]>>
                  /\ ~m.blocks[k].downsample
                  /\ m.blocks[k].conv_downsample = None
            /\ d_args.filts2 = <<d_args0.filts2[2], d_args0.filts2[2]>>

C8_Witness ==
    /\ Len(models) >= 1
    /\ d_args0.filts2[1] # d_args0.filts2[2]
    /\ models[1].blocks[2].downsample
    /\ ~models[1].blocks[3].downsample

\* C9: in every Model that construction yields, the first BasicBlock of layer1 is
\* built with in_channels = 64, every later block with in_channels equal to the
\* out_channels of the block before it, widths 64, 64, 128, 128, 256, 256, 512,
\* 512, the normalisation before the GRU for 512 channels, and forward on
\* [batch, 3, H, W] meets no channel mismatch.
C9_BackboneChannelsConsistent ==
    /\ model # None
       => /\ model.layers[1].conv1.in_channels = StemWidth
          /\ \A k \in 2..Len(model.layers) :
                model.layers[k].conv1.in_channels = model.layers[k - 1].conv2.out_channels
          /\ [k \in 1..Len(model.layers) |-> model.layers[k].conv2.out_channels]
                = <<64, 64, 128, 128, 256, 256, 512, 512>>
          /\ model.bn_before_gru.num_features = 512
    /\ (ret.op = "Model.forward" /\ ret.x[2] = 3 /\ ret.x[1] > 1) => ret.err # "RuntimeError"

\* C10: once a Model2 has been built from d_args, a later Model2 construction
\* from the same d_args leaves d_args unchanged, and the block2 it builds has
\* in = out = filts[2][1] and no projection shortcut.
C10_LaterConstructionsIdempotent ==
    [][(Len(models) >= 1 /\ ret'.op = "Model2.__init__")
       => /\ d_args' = d_args
          /\ Len(models') = Len(models) + 1
          /\ LET m == models'[Len(models')]
             IN  /\ BlockFilts(m.blocks[2]) = <<d_args0.filts2[2], d_args0.filts2[2]>>
                 /\ ~m.blocks[2].downsample]_vars

C10_Witness ==
    /\ Len(models) >= 2
    /\ models[1].blocks[2].downsample
    /\ ~models[2].blocks[2].downsample
    /\ ret.op = "Model2.__init__"

====
